---- MODULE Spec2Model ----
(***************************************************************************)
(* Model of go-lnd-router-events (package events, events/events.go):       *)
(* the LNDEventListener with its observer registry, the in-flight forward  *)
(* map, the HTLC and invoice dispatcher loops and the settlement           *)
(* enrichment against the lnd node.                                        *)
(***************************************************************************)
EXTENDS Integers, Sequences, FiniteSets, TLC

\* ------------------------------------------------------------------ bounds
\* routing tuples the HTLC stream draws from: the first NumTuples of RoutingTuples
NumTuples == 3
\* amount pairs a ForwardEvent draws from: the first NumAmts of AmtPairs
NumAmts == 2
\* observer objects the application owns: 1..NumObservers
NumObservers == 2
\* cap on the number of registrations held by the registry as a whole
MaxRegistered == 2

\* ------------------------------------------------- ObservableEventType
SettledInvoice == 0
Forward == 1
eventLimit == 2

EventTypes == SettledInvoice .. (eventLimit - 1)

\* ------------------------------------------------------ environment data
\* (incoming channel, outgoing channel, incoming htlc, outgoing htlc)
RoutingTuples ==
  << <<10, 20, 1, 2>>, <<20, 10, 1, 2>>, <<10, 10, 1, 1>>, <<30, 20, 2, 1>>, <<20, 30, 2, 1>> >>

\* (incoming msat, outgoing msat) of a forward
AmtPairs == << <<5000, 4990>>, <<3000, 3000>>, <<7000, 6990>>, <<100, 99>> >>

TupleSet(n) == { RoutingTuples[i] : i \in 1 .. n }
AmtSet(n) == { AmtPairs[i] : i \in 1 .. n }

ObserverIds == 1 .. NumObservers

\* Observer.GetName(): the name an observer object reports
GetName(o) == IF o % 2 = 1 THEN "S1" ELSE "S2"

thisNodesPubKey == "self"

\* the counterparty of this node on a channel, as the lnd graph knows it
ChanPeer(c) == IF (c \div 10) % 2 = 1 THEN "peerA" ELSE "peerB"

\* the alias the lnd graph holds for a node
NodeAlias(pub) == IF pub = "peerA" THEN "alice" ELSE IF pub = "peerB" THEN "bob" ELSE "me"

\* outcome of an RPC that failed
RpcErr == [err |-> TRUE, Node1Pub |-> "", Node2Pub |-> "", Alias |-> ""]

\* lnrpc GetChanInfo(chanId): an error, or the channel edge with this node
\* on either end
ChanInfoResults(c) ==
  { RpcErr,
    [err |-> FALSE, Node1Pub |-> thisNodesPubKey, Node2Pub |-> ChanPeer(c), Alias |-> ""],
    [err |-> FALSE, Node1Pub |-> ChanPeer(c), Node2Pub |-> thisNodesPubKey, Alias |-> ""] }

\* lnrpc GetNodeInfo(pubKey): an error, or the node with its alias
NodeInfoResults(pub) ==
  { RpcErr,
    [err |-> FALSE, Node1Pub |-> "", Node2Pub |-> "", Alias |-> NodeAlias(pub)] }

\* raw records of the routerrpc HTLC event stream
HtlcEventKinds == {"ForwardEvent", "SettleEvent", "LinkFailEvent", "ForwardFailEvent", "FinalHtlcEvent"}

HtlcEvent(kind, cin, cout, hin, hout, ain, aout) ==
  [kind |-> kind,
   IncomingChannelId |-> cin, OutgoingChannelId |-> cout,
   IncomingHtlcId |-> hin, OutgoingHtlcId |-> hout,
   IncomingAmtMsat |-> ain, OutgoingAmtMsat |-> aout]

\* the records the HTLC stream can carry over the given routing tuples and
\* amounts; only a ForwardEvent has amounts
HtlcEventsOver(tuples, amts) ==
  { HtlcEvent("ForwardEvent", t[1], t[2], t[3], t[4], a[1], a[2]) : t \in tuples, a \in amts }
  \cup
  { HtlcEvent(kind, t[1], t[2], t[3], t[4], 0, 0) :
      kind \in HtlcEventKinds \ {"ForwardEvent"}, t \in tuples }

RawHtlcEvents == HtlcEventsOver(TupleSet(NumTuples), AmtSet(NumAmts))

\* the stream of the whole-program specification: one routing tuple
SingleHtlcEvents == HtlcEventsOver(TupleSet(1), AmtSet(1))

NoHtlcEvent == HtlcEvent("none", 0, 0, 0, 0, 0, 0)

\* records of the lnrpc invoice subscription
\* (an open invoice with nothing paid, and a settled one)
InvoiceUpdates ==
  { [Settled |-> FALSE, AmtPaidMsat |-> 0, RPreimage |-> <<7>>],
    [Settled |-> TRUE, AmtPaidMsat |-> AmtPairs[1][1], RPreimage |-> <<9>>] }

NoInvoice == [Settled |-> FALSE, AmtPaidMsat |-> 0, RPreimage |-> <<>>]

\* ------------------------------------------------------------------ state
VARIABLES
  observers,         \* map ObservableEventType -> list of observers
  forwardsInFlight,  \* map in-flight key -> the ForwardEvent stored under it
  startState,        \* Start(): "idle", "waiting" in wg.Wait(), "returned"
  wg,                \* the WaitGroup counter of Start()
  htlcLoop,          \* subscribeHtlcEvents goroutine: none/subscribing/listening/exited
  invoiceLoop,       \* subscribeInvoiceSettlements goroutine, likewise
  crashed,           \* the process died (log.Fatal or an unrecovered panic)
  updateCalls,       \* Observer.Update calls made by the latest step, in order
  resolverCalls,     \* lnd lookups made by the latest step, in order
  lastOp,            \* the latest step: operation and its input
  phase,             \* per in-flight key: what the stream has said about it
  pendingStart,      \* per in-flight key: the ForwardEvent the stream sent last
  inProgress         \* per goroutine: the registry operation it is inside of

vars == <<observers, forwardsInFlight, startState, wg, htlcLoop, invoiceLoop,
          crashed, updateCalls, resolverCalls, lastOp, phase, pendingStart, inProgress>>

\* --------------------------------------------------------------- helpers
\* Go map read of a slice value: the nil slice when the key is absent
ObserverList(obs, t) == IF t \in DOMAIN obs THEN obs[t] ELSE <<>>

\* Go map write m[k] = v
MapPut(m, k, v) == [x \in (DOMAIN m) \cup {k} |-> IF x = k THEN v ELSE m[x]]

\* Go delete(m, k)
MapDelete(m, k) == [x \in (DOMAIN m) \ {k} |-> m[x]]

EmptyMap == [x \in {} |-> 0]

RECURSIVE SumLen(_, _)
SumLen(obs, ts) ==
  IF ts = {} THEN 0
  ELSE LET t == CHOOSE x \in ts : TRUE
       IN Len(obs[t]) + SumLen(obs, ts \ {t})

Registered(obs) == SumLen(obs, DOMAIN obs)

\* the four routing coordinates of a raw event
Tuple(ev) == <<ev.IncomingChannelId, ev.OutgoingChannelId, ev.IncomingHtlcId, ev.OutgoingHtlcId>>

\* the latest step: the operation, the HTLC record, observer and category it
\* took, whether its lookup in the map or registry found something, and the
\* invoice update it took (set by InvoiceRecv)
Op(op, ev, o, t, matched) ==
  [op |-> op, ev |-> ev, o |-> o, t |-> t, matched |-> matched, inv |-> NoInvoice]

\* the goroutines that use the registry: the application's, which calls
\* Register and Deregister, and the two dispatcher loops, which call UpdateAll
Goroutines == {"app", "htlc", "invoice"}

\* a registry operation a goroutine is inside of: Register or Deregister
\* between its entry and its map write (o, t are its arguments), or UpdateAll
\* ranging over the slice it read (calls are the Update calls still to make)
Call(op, o, t, calls) == [op |-> op, o |-> o, t |-> t, calls |-> calls]

NoCall == Call("none", 0, 0, <<>>)

NoneInProgress == [g \in Goroutines |-> NoCall]

\* every value the in-flight key takes over the modelled stream
Keys == { t[1] + t[2] + t[3] + t[4] : t \in TupleSet(NumTuples) }

Phases == {"none", "started", "restarted", "interrupted", "failed", "settled"}

\* ------------------------------------------------------------ the code
\* inFlightKey := IncomingChannelId + OutgoingChannelId + IncomingHtlcId + OutgoingHtlcId
\* (uint64 addition; the modelled ids are far from the wrap-around)
inFlightKey(event) ==
  event.IncomingChannelId + event.OutgoingChannelId + event.IncomingHtlcId + event.OutgoingHtlcId

\* the Event struct; fields a constructor does not set hold Go's zero values
Event(type, fromPubKey, fromAlias, incomingMSats, toAlias, toPubKey, outgoingMSats, isSettled, settleAmount, preimage) ==
  [Type |-> type,
   FromPubKey |-> fromPubKey, FromAlias |-> fromAlias, IncomingMSats |-> incomingMSats,
   ToAlias |-> toAlias, ToPubKey |-> toPubKey, OutgoingMSats |-> outgoingMSats,
   ChanId_In |-> 0, ChanId_Out |-> 0, HtlcId_In |-> 0, HtlcId_Out |-> 0,
   IsSettled |-> isSettled, SettleAmount_msat |-> settleAmount, Preimage |-> preimage]

\* getNodeAlias: returns nodeInfo.Node.Alias; on an RPC error nodeInfo is nil
\* and the dereference panics (see getNodeAliasPanics)
getNodeAlias(nodeInfo) == nodeInfo.Alias

getNodeAliasPanics(nodeInfo) == nodeInfo.err

\* the pick of the older draft of settleEventDetails: always Node1Pub
CounterpartyNode1(chanInfo) == chanInfo.Node1Pub

\* the counterparty settleEventDetails picks from a channel edge
Counterparty(chanInfo) ==
  IF chanInfo.Node1Pub = thisNodesPubKey THEN chanInfo.Node2Pub ELSE chanInfo.Node1Pub

\* settleEventDetails panics when an alias lookup it makes fails
settleEventDetailsPanics(inInfo, inNode, outInfo, outNode) ==
  \/ ~inInfo.err /\ getNodeAliasPanics(inNode)
  \/ ~outInfo.err /\ getNodeAliasPanics(outNode)

\* one lnd lookup of settleEventDetails: the RPC, the side of the forward it
\* is made for, whether it returned an error
Lookup(call, side, err) == [call |-> call, side |-> side, err |-> err]

\* lookups of a settleEventDetails that asks for the alias on either side
\* whether or not the channel lookup of the side succeeded
settleEventDetailsLookupsAlways(inInfo, inNode, outInfo, outNode) ==
  <<Lookup("GetChanInfo", "incoming", inInfo.err), Lookup("GetNodeInfo", "incoming", inNode.err),
    Lookup("GetChanInfo", "outgoing", outInfo.err), Lookup("GetNodeInfo", "outgoing", outNode.err)>>

\* the lnd lookups settleEventDetails makes, in order, up to a panic
settleEventDetailsLookups(inInfo, inNode, outInfo, outNode) ==
  LET inSide == IF inInfo.err THEN <<Lookup("GetChanInfo", "incoming", TRUE)>>
                ELSE <<Lookup("GetChanInfo", "incoming", FALSE),
                       Lookup("GetNodeInfo", "incoming", inNode.err)>>
      outSide == IF outInfo.err THEN <<Lookup("GetChanInfo", "outgoing", TRUE)>>
                 ELSE <<Lookup("GetChanInfo", "outgoing", FALSE),
                        Lookup("GetNodeInfo", "outgoing", outNode.err)>>
  IN IF ~inInfo.err /\ getNodeAliasPanics(inNode) THEN inSide ELSE inSide \o outSide

\* settleEventDetails(event): the Forward event built from a stored ForwardEvent
\* and the answers of the lnd node
settleEventDetails(event, inInfo, inNode, outInfo, outNode) ==
  LET fromPubKey == IF inInfo.err THEN "Incoming pub key not available" ELSE Counterparty(inInfo)
      fromAlias == IF inInfo.err THEN "Info not available" ELSE getNodeAlias(inNode)
      toPubKey == IF outInfo.err THEN "Outgoing pub key not available" ELSE Counterparty(outInfo)
      toAlias == IF outInfo.err THEN "Nowhere - you've been paid" ELSE getNodeAlias(outNode)
  IN Event(Forward, fromPubKey, fromAlias, event.IncomingAmtMsat,
           toAlias, toPubKey, event.OutgoingAmtMsat, FALSE, 0, <<>>)

\* an invoice Event that reports every update as settled
invoiceEventAlwaysSettled(invoiceUpdate) ==
  Event(SettledInvoice, "", "", 0, "", "", 0,
        TRUE, invoiceUpdate.AmtPaidMsat, invoiceUpdate.RPreimage)

\* the Event subscribeInvoiceSettlements builds from one invoice update
invoiceEvent(invoiceUpdate) ==
  Event(SettledInvoice, "", "", 0, "", "", 0,
        invoiceUpdate.Settled, invoiceUpdate.AmtPaidMsat, invoiceUpdate.RPreimage)

\* Register: observers[t] = append(observers[t], o)
Register(obs, o, t) == MapPut(obs, t, Append(ObserverList(obs, t), o))

\* Deregister that removes the observers of o's name from the slice and keeps
\* the map entry of the category, even when the slice is left empty
DeregisterKeepsCategory(obs, o, t) ==
  IF t \in DOMAIN obs
  THEN MapPut(obs, t, SelectSeq(obs[t], LAMBDA x : GetName(x) # GetName(o)))
  ELSE obs

\* Deregister: delete(observers, t) when the category has an entry
Deregister(obs, o, t) == IF t \in DOMAIN obs THEN MapDelete(obs, t) ELSE obs

\* an UpdateAll that calls the observers of every category
UpdateAllCategories(obs, event) ==
  LET all == ObserverList(obs, SettledInvoice) \o ObserverList(obs, Forward)
  IN [i \in 1 .. Len(all) |-> [observer |-> all[i], event |-> event]]

\* UpdateAll: o.Update(event) for each o of observers[event.Type], in slice order
UpdateAll(obs, event) ==
  [i \in 1 .. Len(ObserverList(obs, event.Type)) |->
     [observer |-> ObserverList(obs, event.Type)[i], event |-> event]]

\* what one iteration of the HTLC loop does: the in-flight map it leaves, the
\* Update calls and lnd lookups it makes, whether it panics
Outcome(fif, updates, lookups, panics) ==
  [fif |-> fif, updates |-> updates, lookups |-> lookups, panics |-> panics]

\* settleCase without the `if !exists { continue }` check: the nil entry is
\* handed to settleEventDetails, whose first field access panics
settleCaseUnchecked(fif, obs, key, inInfo, inNode, outInfo, outNode) ==
  IF key \notin DOMAIN fif
  THEN Outcome(MapDelete(fif, key), <<>>, <<>>, TRUE)
  ELSE IF settleEventDetailsPanics(inInfo, inNode, outInfo, outNode)
  THEN Outcome(MapDelete(fif, key), <<>>,
               settleEventDetailsLookups(inInfo, inNode, outInfo, outNode), TRUE)
  ELSE Outcome(MapDelete(fif, key),
               UpdateAll(obs, settleEventDetails(fif[key], inInfo, inNode, outInfo, outNode)),
               settleEventDetailsLookups(inInfo, inNode, outInfo, outNode), FALSE)

\* a SettleEvent case that calls settleEventDetails first and deletes the
\* entry after it returned: a panic in the lookups leaves the entry in the map
settleCaseResolvesFirst(fif, obs, key, inInfo, inNode, outInfo, outNode) ==
  IF key \notin DOMAIN fif
  THEN Outcome(fif, <<>>, <<>>, FALSE)
  ELSE IF settleEventDetailsPanics(inInfo, inNode, outInfo, outNode)
  THEN Outcome(fif, <<>>,
               settleEventDetailsLookups(inInfo, inNode, outInfo, outNode), TRUE)
  ELSE Outcome(MapDelete(fif, key),
               UpdateAll(obs, settleEventDetails(fif[key], inInfo, inNode, outInfo, outNode)),
               settleEventDetailsLookups(inInfo, inNode, outInfo, outNode), FALSE)

\* case *routerrpc.HtlcEvent_SettleEvent
settleCase(fif, obs, key, inInfo, inNode, outInfo, outNode) ==
  IF key \notin DOMAIN fif
  THEN Outcome(fif, <<>>, <<>>, FALSE)
  ELSE IF settleEventDetailsPanics(inInfo, inNode, outInfo, outNode)
  THEN Outcome(MapDelete(fif, key), <<>>,
               settleEventDetailsLookups(inInfo, inNode, outInfo, outNode), TRUE)
  ELSE Outcome(MapDelete(fif, key),
               UpdateAll(obs, settleEventDetails(fif[key], inInfo, inNode, outInfo, outNode)),
               settleEventDetailsLookups(inInfo, inNode, outInfo, outNode), FALSE)

\* a fail case that clears the whole map
failCaseClearsAll(fif, key) == Outcome(EmptyMap, <<>>, <<>>, FALSE)

\* failCase without the delete
failCaseKeepsEntry(fif, key) == Outcome(fif, <<>>, <<>>, FALSE)

\* case *routerrpc.HtlcEvent_LinkFailEvent, case *routerrpc.HtlcEvent_ForwardFailEvent
failCase(fif, key) == Outcome(MapDelete(fif, key), <<>>, <<>>, FALSE)

\* a ForwardEvent case that keeps the entry already stored under the key
forwardCaseKeepsFirst(fif, key, event) ==
  Outcome(IF key \in DOMAIN fif THEN fif ELSE MapPut(fif, key, event), <<>>, <<>>, FALSE)

\* case *routerrpc.HtlcEvent_ForwardEvent
forwardCase(fif, key, event) == Outcome(MapPut(fif, key, event), <<>>, <<>>, FALSE)

\* a loop body whose switch treats every other kind as a failure of the key
htlcLoopBodyDefaultFails(fif, obs, event, inInfo, inNode, outInfo, outNode) ==
  LET key == inFlightKey(event)
  IN CASE event.kind = "SettleEvent" -> settleCase(fif, obs, key, inInfo, inNode, outInfo, outNode)
       [] event.kind = "ForwardEvent" -> forwardCase(fif, key, event)
       [] OTHER -> failCase(fif, key)

\* the body of the for loop of subscribeHtlcEvents after a successful Recv
htlcLoopBody(fif, obs, event, inInfo, inNode, outInfo, outNode) ==
  LET key == inFlightKey(event)
  IN CASE event.kind = "SettleEvent" -> settleCase(fif, obs, key, inInfo, inNode, outInfo, outNode)
       [] event.kind = "LinkFailEvent" -> failCase(fif, key)
       [] event.kind = "ForwardFailEvent" -> failCase(fif, key)
       [] event.kind = "ForwardEvent" -> forwardCase(fif, key, event)
       [] OTHER -> Outcome(fif, <<>>, <<>>, FALSE)

\* ---------------------------------------------- what the stream has said
\* per key: "started" after a ForwardEvent, "restarted" after a further one,
\* "interrupted" when a record of an unhandled kind followed, "failed" once a
\* fail event followed (until the next ForwardEvent), "settled" when the last
\* record was the SettleEvent that followed, "none" otherwise
NextPhase(p, kind) ==
  CASE kind = "ForwardEvent" ->
         IF p \in {"started", "restarted", "interrupted"} THEN "restarted" ELSE "started"
    [] kind \in {"LinkFailEvent", "ForwardFailEvent"} ->
         IF p \in {"started", "restarted", "interrupted", "failed"} THEN "failed" ELSE "none"
    [] kind = "SettleEvent" ->
         IF p \in {"started", "restarted", "interrupted"} THEN "settled"
         ELSE IF p = "failed" THEN "failed" ELSE "none"
    [] OTHER ->
         IF p \in {"started", "restarted", "interrupted"} THEN "interrupted"
         ELSE IF p = "failed" THEN "failed" ELSE "none"

StreamSaid(event) ==
  LET key == inFlightKey(event)
      p == NextPhase(phase[key], event.kind)
  IN /\ phase' = [phase EXCEPT ![key] = p]
     /\ pendingStart' =
          IF event.kind = "ForwardEvent" THEN MapPut(pendingStart, key, event)
          ELSE IF p = "interrupted" THEN pendingStart
          ELSE MapDelete(pendingStart, key)

\* ---------------------------------------------------------------- Init
Init ==
  /\ observers = EmptyMap
  /\ forwardsInFlight = EmptyMap
  /\ startState = "idle"
  /\ wg = 0
  /\ htlcLoop = "none"
  /\ invoiceLoop = "none"
  /\ crashed = FALSE
  /\ updateCalls = <<>>
  /\ resolverCalls = <<>>
  /\ lastOp = Op("New", NoHtlcEvent, 0, 0, FALSE)
  /\ phase = [k \in Keys |-> "none"]
  /\ pendingStart = EmptyMap
  /\ inProgress = NoneInProgress

\* ------------------------------------------------------------- actions
NameRegistered(obs, o, t) ==
  \E i \in 1 .. Len(ObserverList(obs, t)) : GetName(ObserverList(obs, t)[i]) = GetName(o)

\* listener.Register(o, t)
RegisterCall(o, t) ==
  /\ ~crashed
  /\ Registered(observers) < MaxRegistered
  /\ observers' = Register(observers, o, t)
  /\ updateCalls' = <<>>
  /\ resolverCalls' = <<>>
  /\ lastOp' = Op("Register", NoHtlcEvent, o, t, NameRegistered(observers, o, t))
  /\ UNCHANGED <<inProgress, forwardsInFlight, startState, wg, htlcLoop, invoiceLoop, crashed,
                 phase, pendingStart>>

\* listener.Deregister(o, t)
DeregisterCall(o, t) ==
  /\ ~crashed
  /\ observers' = Deregister(observers, o, t)
  /\ updateCalls' = <<>>
  /\ resolverCalls' = <<>>
  /\ lastOp' = Op("Deregister", NoHtlcEvent, o, t, NameRegistered(observers, o, t))
  /\ UNCHANGED <<inProgress, forwardsInFlight, startState, wg, htlcLoop, invoiceLoop, crashed,
                 phase, pendingStart>>

\* listener.Start(): one goroutine per category that has an entry in observers,
\* then wg.Wait(); nothing ever calls wg.Done()
Start ==
  /\ ~crashed
  /\ startState = "idle"
  /\ wg' = Cardinality(DOMAIN observers)
  /\ htlcLoop' = IF Forward \in DOMAIN observers THEN "subscribing" ELSE htlcLoop
  /\ invoiceLoop' = IF SettledInvoice \in DOMAIN observers THEN "subscribing" ELSE invoiceLoop
  /\ startState' = IF DOMAIN observers = {} THEN "returned" ELSE "waiting"
  /\ updateCalls' = <<>>
  /\ resolverCalls' = <<>>
  /\ lastOp' = Op("Start", NoHtlcEvent, 0, 0, FALSE)
  /\ UNCHANGED <<inProgress, observers, forwardsInFlight, crashed, phase, pendingStart>>

\* subscribeHtlcEvents up to the loop: router.SubscribeHtlcEvents succeeds, or
\* fails and log.Fatalf ends the process
subscribeHtlcEvents(ok) ==
  /\ ~crashed
  /\ htlcLoop = "subscribing"
  /\ htlcLoop' = IF ok THEN "listening" ELSE htlcLoop
  /\ crashed' = ~ok
  /\ updateCalls' = <<>>
  /\ resolverCalls' = <<>>
  /\ lastOp' = Op("subscribeHtlcEvents", NoHtlcEvent, 0, Forward, ok)
  /\ UNCHANGED <<inProgress, observers, forwardsInFlight, startState, wg, invoiceLoop,
                 phase, pendingStart>>

\* the answers lnd can give to the lookups of one side: the channel lookup
\* fails (no alias lookup is made), or it succeeds and the alias lookup of the
\* counterparty follows, answered for the pub key the code asks about
SideAnswers(c) ==
  { <<RpcErr, RpcErr>> }
  \cup
  UNION { { <<chanInfo, nodeInfo>> : nodeInfo \in NodeInfoResults(Counterparty(chanInfo)) } :
            chanInfo \in ChanInfoResults(c) \ {RpcErr} }

\* the answers lnd can give to the lookups made for a stored ForwardEvent; a
\* panic on the incoming side leaves the outgoing lookups unmade
LookupAnswers(e) ==
  UNION { { <<i[1], i[2], o[1], o[2]>> :
              o \in { x \in SideAnswers(e.OutgoingChannelId) :
                        (~i[1].err /\ i[2].err) => x = <<RpcErr, RpcErr>> } } :
          i \in SideAnswers(e.IncomingChannelId) }

\* one iteration of the HTLC loop: events.Recv() delivers a record
HtlcRecv(event) ==
  /\ ~crashed
  /\ htlcLoop = "listening"
  /\ LET key == inFlightKey(event)
         e == IF key \in DOMAIN forwardsInFlight THEN forwardsInFlight[key] ELSE NoHtlcEvent
         answers == IF event.kind = "SettleEvent" /\ key \in DOMAIN forwardsInFlight
                    THEN LookupAnswers(e)
                    ELSE { <<RpcErr, RpcErr, RpcErr, RpcErr>> }
     IN \E a \in answers :
          LET out == htlcLoopBody(forwardsInFlight, observers, event, a[1], a[2], a[3], a[4])
          IN /\ forwardsInFlight' = out.fif
             /\ updateCalls' = out.updates
             /\ resolverCalls' = out.lookups
             /\ crashed' = out.panics
             /\ lastOp' = Op("HtlcRecv", event, 0, Forward, key \in DOMAIN forwardsInFlight)
  /\ StreamSaid(event)
  /\ UNCHANGED <<inProgress, observers, startState, wg, htlcLoop, invoiceLoop>>

\* a Recv error handled with log.Fatal instead of log.Println and return
HtlcRecvErrFatal ==
  /\ ~crashed
  /\ htlcLoop = "listening"
  /\ htlcLoop' = "exited"
  /\ crashed' = TRUE
  /\ updateCalls' = <<>>
  /\ resolverCalls' = <<>>
  /\ lastOp' = Op("HtlcRecvErr", NoHtlcEvent, 0, Forward, FALSE)
  /\ UNCHANGED <<inProgress, observers, forwardsInFlight, startState, wg, invoiceLoop,
                 phase, pendingStart>>

\* events.Recv() returns an error: the HTLC loop returns
HtlcRecvErr ==
  /\ ~crashed
  /\ htlcLoop = "listening"
  /\ htlcLoop' = "exited"
  /\ updateCalls' = <<>>
  /\ resolverCalls' = <<>>
  /\ lastOp' = Op("HtlcRecvErr", NoHtlcEvent, 0, Forward, FALSE)
  /\ UNCHANGED <<inProgress, observers, forwardsInFlight, startState, wg, invoiceLoop, crashed,
                 phase, pendingStart>>

\* subscribeInvoiceSettlements up to the loop: lndcli.SubscribeInvoices
\* succeeds, or fails and log.Fatalf ends the process
subscribeInvoiceSettlements(ok) ==
  /\ ~crashed
  /\ invoiceLoop = "subscribing"
  /\ invoiceLoop' = IF ok THEN "listening" ELSE invoiceLoop
  /\ crashed' = ~ok
  /\ updateCalls' = <<>>
  /\ resolverCalls' = <<>>
  /\ lastOp' = Op("subscribeInvoiceSettlements", NoHtlcEvent, 0, SettledInvoice, ok)
  /\ UNCHANGED <<inProgress, observers, forwardsInFlight, startState, wg, htlcLoop,
                 phase, pendingStart>>

\* one iteration of the invoice loop
InvoiceRecv(invoiceUpdate) ==
  /\ ~crashed
  /\ invoiceLoop = "listening"
  /\ updateCalls' = UpdateAll(observers, invoiceEvent(invoiceUpdate))
  /\ resolverCalls' = <<>>
  /\ lastOp' = [Op("InvoiceRecv", NoHtlcEvent, 0, SettledInvoice, FALSE) EXCEPT !.inv = invoiceUpdate]
  /\ UNCHANGED <<inProgress, observers, forwardsInFlight, startState, wg, htlcLoop, invoiceLoop,
                 crashed, phase, pendingStart>>

\* invoiceSubscription.Recv() returns an error: the invoice loop returns
InvoiceRecvErr ==
  /\ ~crashed
  /\ invoiceLoop = "listening"
  /\ invoiceLoop' = "exited"
  /\ updateCalls' = <<>>
  /\ resolverCalls' = <<>>
  /\ lastOp' = Op("InvoiceRecvErr", NoHtlcEvent, 0, SettledInvoice, FALSE)
  /\ UNCHANGED <<inProgress, observers, forwardsInFlight, startState, wg, htlcLoop, crashed,
                 phase, pendingStart>>

Next ==
  \/ \E o \in ObserverIds, t \in EventTypes : RegisterCall(o, t)
  \/ \E o \in ObserverIds, t \in EventTypes : DeregisterCall(o, t)
  \/ Start
  \/ \E ok \in BOOLEAN : subscribeHtlcEvents(ok)
  \/ \E event \in SingleHtlcEvents : HtlcRecv(event)
  \/ HtlcRecvErr
  \/ \E ok \in BOOLEAN : subscribeInvoiceSettlements(ok)
  \/ \E invoiceUpdate \in InvoiceUpdates : InvoiceRecv(invoiceUpdate)
  \/ InvoiceRecvErr

Spec == Init /\ [][Next]_vars

\* ------------------------------------------- the HTLC loop at work
\* the registry built by registering the observers 1, 2, ... under Forward, in
\* that order, as many as the bounds allow
ForwardObservers ==
  [i \in 1 .. (IF NumObservers <= MaxRegistered THEN NumObservers ELSE MaxRegistered) |-> i]

\* the listener after Register calls under Forward, Start() and a successful
\* subscription: the HTLC loop is listening (registering one observer twice
\* and later Register/Deregister calls are part of Spec)
InitListening ==
  /\ observers = [t \in {Forward} |-> ForwardObservers]
  /\ forwardsInFlight = EmptyMap
  /\ startState = "waiting"
  /\ wg = 1
  /\ htlcLoop = "listening"
  /\ invoiceLoop = "none"
  /\ crashed = FALSE
  /\ updateCalls = <<>>
  /\ resolverCalls = <<>>
  /\ lastOp = Op("subscribeHtlcEvents", NoHtlcEvent, 0, Forward, TRUE)
  /\ phase = [k \in Keys |-> "none"]
  /\ pendingStart = EmptyMap
  /\ inProgress = NoneInProgress

NextHtlc ==
  \/ \E event \in RawHtlcEvents : HtlcRecv(event)
  \/ HtlcRecvErr

SpecHtlc == InitListening /\ [][NextHtlc]_vars


\* ------------------------------------ the goroutines, operation by operation
\* The registry is a package-level map that the application's goroutine and
\* the two dispatcher goroutines use without any lock.  Here a registry
\* operation takes several steps, so that the steps of the goroutines
\* interleave as the Go scheduler lets them: Register and Deregister are
\* entered and then write the map; UpdateAll reads the slice of the category
\* and then makes its Update calls one by one.

\* the HTLC loop calls events.Recv() at the top of its for loop: it is there
\* only when the body of the previous iteration, UpdateAll included, returned
HtlcLoopAtRecvAlways(ip) == TRUE

HtlcLoopAtRecv(ip) == ip["htlc"].op = "none"

\* UpdateAll entered with the calls it is going to make
Ranging(calls) == IF calls = <<>> THEN NoCall ELSE Call("UpdateAll", 0, 0, calls)

\* the outcomes of a goroutine reading the observers map: it reads it, and
\* when the application's goroutine is inside Register or Deregister at that
\* moment the unsynchronised map access may also end the process (Go's
\* "fatal error: concurrent map read and map write")
MapReadDies(ip) == IF ip["app"].op = "none" THEN {FALSE} ELSE {FALSE, TRUE}

\* the answers of lnd this specification draws from: both channel lookups
\* fail, or the incoming one succeeds and the alias lookup after it fails
GoroutineAnswers(e) ==
  { a \in LookupAnswers(e) :
      \/ a[1].err /\ a[3].err
      \/ ~a[1].err /\ a[1].Node1Pub = thisNodesPubKey /\ a[2].err }

\* the observer the application registers and deregisters while the loops
\* run: the last of its observers (observer 1 was registered before Start)
AppObservers == {NumObservers}

\* the listener with an observer under each category, after Start() and both
\* subscriptions succeeded: both loops are listening
InitGoroutines ==
  /\ observers = [t \in EventTypes |-> <<1>>]
  /\ forwardsInFlight = EmptyMap
  /\ startState = "waiting"
  /\ wg = eventLimit
  /\ htlcLoop = "listening"
  /\ invoiceLoop = "listening"
  /\ crashed = FALSE
  /\ updateCalls = <<>>
  /\ resolverCalls = <<>>
  /\ lastOp = Op("subscribeHtlcEvents", NoHtlcEvent, 0, Forward, TRUE)
  /\ phase = [k \in Keys |-> "none"]
  /\ pendingStart = EmptyMap
  /\ inProgress = NoneInProgress

\* the application's goroutine enters Register(o, t)
RegisterEnter(o, t) ==
  /\ ~crashed
  /\ inProgress["app"].op = "none"
  /\ Registered(observers) < MaxRegistered
  /\ inProgress' = [inProgress EXCEPT !["app"] = Call("Register", o, t, <<>>)]
  /\ updateCalls' = <<>>
  /\ resolverCalls' = <<>>
  /\ lastOp' = Op("RegisterEnter", NoHtlcEvent, o, t, NameRegistered(observers, o, t))
  /\ UNCHANGED <<observers, forwardsInFlight, startState, wg, htlcLoop, invoiceLoop,
                 crashed, phase, pendingStart>>

\* the application's goroutine enters Deregister(o, t)
DeregisterEnter(o, t) ==
  /\ ~crashed
  /\ inProgress["app"].op = "none"
  /\ inProgress' = [inProgress EXCEPT !["app"] = Call("Deregister", o, t, <<>>)]
  /\ updateCalls' = <<>>
  /\ resolverCalls' = <<>>
  /\ lastOp' = Op("DeregisterEnter", NoHtlcEvent, o, t, NameRegistered(observers, o, t))
  /\ UNCHANGED <<observers, forwardsInFlight, startState, wg, htlcLoop, invoiceLoop,
                 crashed, phase, pendingStart>>

\* Register or Deregister writes the map and returns
RegistryWrite ==
  /\ ~crashed
  /\ inProgress["app"].op \in {"Register", "Deregister"}
  /\ LET c == inProgress["app"]
     IN /\ observers' = IF c.op = "Register" THEN Register(observers, c.o, c.t)
                                              ELSE Deregister(observers, c.o, c.t)
        /\ lastOp' = Op(c.op, NoHtlcEvent, c.o, c.t, NameRegistered(observers, c.o, c.t))
  /\ inProgress' = [inProgress EXCEPT !["app"] = NoCall]
  /\ updateCalls' = <<>>
  /\ resolverCalls' = <<>>
  /\ UNCHANGED <<forwardsInFlight, startState, wg, htlcLoop, invoiceLoop,
                 crashed, phase, pendingStart>>

\* the HTLC loop receives a record and runs the body of the loop up to and
\* including the slice read of UpdateAll
HtlcRecvStep(event) ==
  /\ ~crashed
  /\ htlcLoop = "listening"
  /\ HtlcLoopAtRecv(inProgress)
  /\ LET key == inFlightKey(event)
         e == IF key \in DOMAIN forwardsInFlight THEN forwardsInFlight[key] ELSE NoHtlcEvent
         answers == IF event.kind = "SettleEvent" /\ key \in DOMAIN forwardsInFlight
                    THEN GoroutineAnswers(e)
                    ELSE { <<RpcErr, RpcErr, RpcErr, RpcErr>> }
     IN \E a \in answers :
          LET out == htlcLoopBody(forwardsInFlight, observers, event, a[1], a[2], a[3], a[4])
              readsMap == event.kind = "SettleEvent" /\ key \in DOMAIN forwardsInFlight /\ ~out.panics
          IN \E dies \in (IF readsMap THEN MapReadDies(inProgress) ELSE {FALSE}) :
               /\ forwardsInFlight' = out.fif
               /\ resolverCalls' = out.lookups
               /\ crashed' = (out.panics \/ dies)
               /\ inProgress' = [inProgress EXCEPT !["htlc"] = IF dies THEN NoCall ELSE Ranging(out.updates)]
               /\ lastOp' = Op("HtlcRecv", event, 0, Forward, key \in DOMAIN forwardsInFlight)
  /\ updateCalls' = <<>>
  /\ StreamSaid(event)
  /\ UNCHANGED <<observers, startState, wg, htlcLoop, invoiceLoop>>

\* the invoice loop receives an update, builds the Event and UpdateAll reads
\* the slice of SettledInvoice
InvoiceRecvStep(invoiceUpdate) ==
  /\ ~crashed
  /\ invoiceLoop = "listening"
  /\ inProgress["invoice"].op = "none"
  /\ \E dies \in MapReadDies(inProgress) :
       /\ crashed' = dies
       /\ inProgress' = [inProgress EXCEPT !["invoice"] =
             IF dies THEN NoCall ELSE Ranging(UpdateAll(observers, invoiceEvent(invoiceUpdate)))]
  /\ updateCalls' = <<>>
  /\ resolverCalls' = <<>>
  /\ lastOp' = [Op("InvoiceRecv", NoHtlcEvent, 0, SettledInvoice, FALSE) EXCEPT !.inv = invoiceUpdate]
  /\ UNCHANGED <<observers, forwardsInFlight, startState, wg, htlcLoop, invoiceLoop,
                 phase, pendingStart>>

\* UpdateAll of dispatcher g makes its next o.Update(event) call; after the
\* last one it returns and the loop is back at Recv
UpdateStep(g) ==
  /\ ~crashed
  /\ inProgress[g].op = "UpdateAll"
  /\ updateCalls' = <<Head(inProgress[g].calls)>>
  /\ inProgress' = [inProgress EXCEPT ![g] = Ranging(Tail(inProgress[g].calls))]
  /\ resolverCalls' = <<>>
  /\ lastOp' = Op("Update", NoHtlcEvent, Head(inProgress[g].calls).observer,
                  Head(inProgress[g].calls).event.Type, Tail(inProgress[g].calls) = <<>>)
  /\ UNCHANGED <<observers, forwardsInFlight, startState, wg, htlcLoop, invoiceLoop,
                 crashed, phase, pendingStart>>

NextGoroutines ==
  \/ \E o \in AppObservers, t \in EventTypes : RegisterEnter(o, t)
  \/ \E o \in AppObservers, t \in EventTypes : DeregisterEnter(o, t)
  \/ RegistryWrite
  \/ \E event \in SingleHtlcEvents : HtlcRecvStep(event)
  \/ \E invoiceUpdate \in InvoiceUpdates : InvoiceRecvStep(invoiceUpdate)
  \/ \E g \in {"htlc", "invoice"} : UpdateStep(g)

SpecGoroutines == InitGoroutines /\ [][NextGoroutines]_vars

\* ------------------------------------------------------------ properties
\* the step just taken received the HTLC record lastOp'.ev of the given kind
HtlcStep(kind) == lastOp'.op = "HtlcRecv" /\ lastOp'.ev.kind = kind

\* the in-flight key of the record the step just taken received
StepKey == inFlightKey(lastOp'.ev)

\* the Update calls of a sequence of calls that went to observer o
CallsTo(calls, o) == { i \in 1 .. Len(calls) : calls[i].observer = o }

\* the observers registered under category t
RegisteredUnder(obs, t) == { ObserverList(obs, t)[i] : i \in 1 .. Len(ObserverList(obs, t)) }

\* each observer registered under Forward received exactly one Update call in
\* this step, a Forward event carrying the amounts of the ForwardEvent start
OneForwardEach(start) ==
  /\ \A o \in RegisteredUnder(observers, Forward) : Cardinality(CallsTo(updateCalls', o)) = 1
  /\ \A i \in 1 .. Len(updateCalls') :
       /\ updateCalls'[i].event.Type = Forward
       /\ updateCalls'[i].event.IncomingMSats = start.IncomingAmtMsat
       /\ updateCalls'[i].event.OutgoingMSats = start.OutgoingAmtMsat

\* C1: when a ForwardEvent with key K was processed and the next record with
\* that key is a SettleEvent, every observer registered under Forward receives
\* exactly one Forward event, carrying the amounts of that ForwardEvent.
C1_CorrelationCorrectness ==
  [][ (HtlcStep("SettleEvent") /\ phase[StepKey] \in {"started", "restarted"})
        => OneForwardEach(pendingStart[StepKey]) ]_vars

\* C2: an HTLC record of one forwarding attempt never removes, overwrites or
\* reports the in-flight entry of an attempt with a different routing tuple.
C2_RoutingKeyUniqueness ==
  [][ (/\ lastOp'.op = "HtlcRecv"
       /\ StepKey \in DOMAIN forwardsInFlight
       /\ Tuple(forwardsInFlight[StepKey]) # Tuple(lastOp'.ev))
        => /\ StepKey \in DOMAIN forwardsInFlight'
           /\ forwardsInFlight'[StepKey] = forwardsInFlight[StepKey]
           /\ updateCalls' = <<>> ]_vars

\* C3: a SettleEvent whose key has no entry in the in-flight map delivers no
\* event, makes no lnd lookup, leaves the whole map as it was and the
\* dispatcher alive.
C3_UnmatchedSettleSilent ==
  [][ (HtlcStep("SettleEvent") /\ StepKey \notin DOMAIN forwardsInFlight)
        => /\ updateCalls' = <<>>
           /\ resolverCalls' = <<>>
           /\ forwardsInFlight' = forwardsInFlight
           /\ ~crashed' ]_vars

\* C3 witness: an unmatched SettleEvent was processed while other keys were in flight
C3_Witness ==
  /\ lastOp.op = "HtlcRecv" /\ lastOp.ev.kind = "SettleEvent" /\ ~lastOp.matched
  /\ forwardsInFlight # EmptyMap

\* C4: a ForwardEvent delivers nothing; a fail event that follows a
\* ForwardEvent of its key leaves no entry under the key and delivers nothing;
\* a SettleEvent that arrives after such a failure, with no new ForwardEvent
\* of the key since, delivers nothing.
C4_FailureClearsState ==
  [][ /\ HtlcStep("ForwardEvent") => updateCalls' = <<>>
      /\ ((HtlcStep("LinkFailEvent") \/ HtlcStep("ForwardFailEvent"))
            /\ phase[StepKey] \in {"started", "restarted", "interrupted"})
           => (StepKey \notin DOMAIN forwardsInFlight' /\ updateCalls' = <<>>)
      /\ (HtlcStep("SettleEvent") /\ phase[StepKey] = "failed")
           => (updateCalls' = <<>> /\ StepKey \notin DOMAIN forwardsInFlight') ]_vars

\* C4 witness: ForwardEvent, fail event, then a SettleEvent of the same key
\* were processed, with observers registered
C4_Witness ==
  /\ lastOp.op = "HtlcRecv" /\ lastOp.ev.kind = "SettleEvent"
  /\ phase[inFlightKey(lastOp.ev)] = "failed"
  /\ RegisteredUnder(observers, Forward) # {}

\* C5: of ForwardEvent, SettleEvent, SettleEvent with one key, the first
\* SettleEvent delivers exactly one Forward event to each observer and the
\* second delivers nothing and leaves the in-flight map and the registry as
\* the first left them.
C5_IdempotentTerminal ==
  [][ /\ (HtlcStep("SettleEvent") /\ phase[StepKey] \in {"started", "restarted"})
           => (OneForwardEach(pendingStart[StepKey]) /\ ~crashed')
      /\ (HtlcStep("SettleEvent") /\ phase[StepKey] = "settled")
           => /\ updateCalls' = <<>>
              /\ forwardsInFlight' = forwardsInFlight
              /\ observers' = observers ]_vars

\* C6: a ForwardEvent that follows a ForwardEvent of the same key with no
\* terminal event in between leaves the later event as the entry of the key,
\* and a SettleEvent that follows delivers to each observer one Forward event
\* carrying the later event's amounts.
C6_OverwriteOnRestart ==
  [][ /\ (HtlcStep("ForwardEvent") /\ phase[StepKey] \in {"started", "restarted", "interrupted"})
           => /\ StepKey \in DOMAIN forwardsInFlight'
              /\ forwardsInFlight'[StepKey] = lastOp'.ev
      /\ (HtlcStep("SettleEvent") /\ phase[StepKey] = "restarted")
           => OneForwardEach(pendingStart[StepKey]) ]_vars

\* the step just taken dispatched an event of category t
Dispatched(t) ==
  \/ t = SettledInvoice /\ lastOp'.op = "InvoiceRecv"
  \/ t = Forward /\ HtlcStep("SettleEvent") /\ lastOp'.matched /\ ~crashed'

\* C7: a dispatch of category t calls Update on the observers registered under
\* t in registration order, once on each and on none more than once.
C7_FanOutOrder ==
  [][ \A t \in EventTypes :
        Dispatched(t)
          => /\ Len(updateCalls') = Len(ObserverList(observers, t))
             /\ \A i \in 1 .. Len(updateCalls') :
                  updateCalls'[i].observer = ObserverList(observers, t)[i]
             /\ \A o \in RegisteredUnder(observers, t) :
                  Cardinality(CallsTo(updateCalls', o)) = 1 ]_vars

\* the list l without the observers named as o is
WithoutName(l, o) == SelectSeq(l, LAMBDA x : GetName(x) # GetName(o))

\* C8: Deregister(o, t) of a registered observer removes the observers of that
\* name from category t and leaves every other observer of t registered.
C8_DeregisterOnlyNamed ==
  [][ (lastOp'.op = "Deregister" /\ lastOp'.matched)
        => ObserverList(observers', lastOp'.t)
             = WithoutName(ObserverList(observers, lastOp'.t), lastOp'.o) ]_vars

\* C9: in every category each observer name is registered at most once.
C9_UniqueNamePerCategory ==
  \A t \in DOMAIN observers :
    \A i, j \in 1 .. Len(observers[t]) :
      i # j => GetName(observers[t][i]) # GetName(observers[t][j])

\* C10: Deregister(o, t) of an observer whose name is not registered under t
\* leaves the registry of every category unchanged.
C10_DeregisterAbsentNoOp ==
  [][ (lastOp'.op = "Deregister" /\ ~lastOp'.matched) => observers' = observers ]_vars

\* C11: the Forward event delivered for a matched SettleEvent carries, as
\* ChanId_In, ChanId_Out, HtlcId_In and HtlcId_Out, the incoming and outgoing
\* channel ids and HTLC ids of the ForwardEvent it was matched to.
C11_ForwardCarriesRoutingIds ==
  [][ (HtlcStep("SettleEvent") /\ phase[StepKey] \in {"started", "restarted"})
        => \A i \in 1 .. Len(updateCalls') :
             /\ updateCalls'[i].event.ChanId_In = pendingStart[StepKey].IncomingChannelId
             /\ updateCalls'[i].event.ChanId_Out = pendingStart[StepKey].OutgoingChannelId
             /\ updateCalls'[i].event.HtlcId_In = pendingStart[StepKey].IncomingHtlcId
             /\ updateCalls'[i].event.HtlcId_Out = pendingStart[StepKey].OutgoingHtlcId ]_vars

\* the step just taken processed a SettleEvent that found an entry under its key
MatchedSettle == HtlcStep("SettleEvent") /\ lastOp'.matched

\* the step just taken made the given lookup for the given side and it failed
LookupFailed(call, side) ==
  \E i \in 1 .. Len(resolverCalls') : resolverCalls'[i] = Lookup(call, side, TRUE)

\* the step just taken called Update once per registration under Forward, in
\* order, with a Forward event carrying the amounts of the ForwardEvent start
DeliveredToAll(start) ==
  /\ Len(updateCalls') = Len(ObserverList(observers, Forward))
  /\ \A i \in 1 .. Len(updateCalls') :
       /\ updateCalls'[i].observer = ObserverList(observers, Forward)[i]
       /\ updateCalls'[i].event.Type = Forward
       /\ updateCalls'[i].event.IncomingMSats = start.IncomingAmtMsat
       /\ updateCalls'[i].event.OutgoingMSats = start.OutgoingAmtMsat

\* C12: when the channel lookup of the incoming or of the outgoing side fails
\* for a matched SettleEvent, the settlement still completes: the entry of the
\* key is removed, the Forward event is delivered to every observer
\* registered under Forward with the stored amounts, and the failed side
\* carries the placeholder pub key and alias.
C12_ChanLookupFailureTolerated ==
  [][ (MatchedSettle /\ (LookupFailed("GetChanInfo", "incoming") \/ LookupFailed("GetChanInfo", "outgoing")))
        => /\ ~crashed'
           /\ StepKey \notin DOMAIN forwardsInFlight'
           /\ DeliveredToAll(forwardsInFlight[StepKey])
           /\ \A i \in 1 .. Len(updateCalls') :
                /\ LookupFailed("GetChanInfo", "incoming")
                     => /\ updateCalls'[i].event.FromPubKey = "Incoming pub key not available"
                        /\ updateCalls'[i].event.FromAlias = "Info not available"
                /\ LookupFailed("GetChanInfo", "outgoing")
                     => /\ updateCalls'[i].event.ToPubKey = "Outgoing pub key not available"
                        /\ updateCalls'[i].event.ToAlias = "Nowhere - you've been paid" ]_vars

\* C13: when the alias lookup of a counterparty fails for a matched
\* SettleEvent, the process does not crash, the HTLC loop keeps listening and
\* the Forward event is delivered to every observer registered under Forward.
C13_AliasLookupFailureTolerated ==
  [][ (MatchedSettle /\ (LookupFailed("GetNodeInfo", "incoming") \/ LookupFailed("GetNodeInfo", "outgoing")))
        => /\ ~crashed'
           /\ htlcLoop' = "listening"
           /\ DeliveredToAll(forwardsInFlight[StepKey]) ]_vars

\* C14: Start launches the dispatcher loop of a category exactly when at least
\* one observer is registered under the category at that time, whatever
\* Register and Deregister calls came before; a loop is launched by nothing
\* else, so a category without observers at Start is never subscribed.
C14_StartLaunchesObservedCategories ==
  [][ /\ lastOp'.op = "Start"
           => /\ (htlcLoop' = "subscribing") <=> (Len(ObserverList(observers, Forward)) >= 1)
              /\ (invoiceLoop' = "subscribing") <=> (Len(ObserverList(observers, SettledInvoice)) >= 1)
      /\ (htlcLoop = "none" /\ htlcLoop' # "none")
           => (lastOp'.op = "Start" /\ Len(ObserverList(observers, Forward)) >= 1)
      /\ (invoiceLoop = "none" /\ invoiceLoop' # "none")
           => (lastOp'.op = "Start" /\ Len(ObserverList(observers, SettledInvoice)) >= 1) ]_vars

\* C14 witness: Start has launched the HTLC loop for a registry that holds
\* observers under Forward and none under SettledInvoice, and the invoice loop
\* was not launched
C14_Witness ==
  /\ lastOp.op = "Start"
  /\ htlcLoop = "subscribing" /\ invoiceLoop = "none"
  /\ Len(ObserverList(observers, Forward)) >= 1
  /\ Len(ObserverList(observers, SettledInvoice)) = 0

\* C15: when the stream of one category ends or errors, the loop of that
\* category exits and processes nothing further, the process stays alive, the
\* other loop is left as it was and can still receive and deliver, and the
\* registry and the in-flight map are left as they were and can still be
\* operated on.
C15_StreamEndIsolated ==
  [][ /\ lastOp'.op = "HtlcRecvErr"
           => /\ htlcLoop' = "exited" /\ invoiceLoop' = invoiceLoop /\ ~crashed'
              /\ observers' = observers /\ forwardsInFlight' = forwardsInFlight
              /\ updateCalls' = <<>>
      /\ lastOp'.op = "InvoiceRecvErr"
           => /\ invoiceLoop' = "exited" /\ htlcLoop' = htlcLoop /\ ~crashed'
              /\ observers' = observers /\ forwardsInFlight' = forwardsInFlight
              /\ updateCalls' = <<>>
      /\ htlcLoop = "exited" => (htlcLoop' = "exited" /\ lastOp'.op # "HtlcRecv")
      /\ invoiceLoop = "exited" => (invoiceLoop' = "exited" /\ lastOp'.op # "InvoiceRecv")
      /\ (htlcLoop = "exited" /\ invoiceLoop = "listening" /\ ~crashed)
           => /\ ENABLED (\E u \in InvoiceUpdates : InvoiceRecv(u))
              /\ ENABLED (\E o \in ObserverIds, t \in EventTypes : DeregisterCall(o, t))
      /\ (invoiceLoop = "exited" /\ htlcLoop = "listening" /\ ~crashed)
           => /\ ENABLED (\E event \in SingleHtlcEvents : HtlcRecv(event))
              /\ ENABLED (\E o \in ObserverIds, t \in EventTypes : DeregisterCall(o, t)) ]_vars

\* C15 witness: after the HTLC loop exited on a stream error, the invoice
\* loop received an invoice update and delivered it
C15_Witness ==
  /\ htlcLoop = "exited" /\ ~crashed
  /\ lastOp.op = "InvoiceRecv" /\ updateCalls # <<>>

\* the Update calls of the step just taken that handed a Forward event to observer o
ForwardCallsTo(o) ==
  { i \in CallsTo(updateCalls', o) : updateCalls'[i].event.Type = Forward }

\* C16: a Forward event is delivered only by a step that processes a
\* SettleEvent matching an entry of the in-flight map; a ForwardEvent, a
\* LinkFailEvent or a ForwardFailEvent calls no observer; and a step hands an
\* observer no more Forward events than the SettleEvents it processed, so
\* that no observer ever holds more Forward events than SettleEvents were
\* processed.
C16_OnlySettledForwardsDelivered ==
  [][ /\ (\E o \in ObserverIds : ForwardCallsTo(o) # {}) => MatchedSettle
      /\ (HtlcStep("ForwardEvent") \/ HtlcStep("LinkFailEvent") \/ HtlcStep("ForwardFailEvent"))
           => updateCalls' = <<>>
      /\ \A o \in ObserverIds :
           Cardinality(ForwardCallsTo(o)) <= (IF HtlcStep("SettleEvent") THEN 1 ELSE 0) ]_vars

\* C17: an invoice update read from the invoice stream makes exactly one
\* SettledInvoice event, carrying the update's settled flag, paid amount and
\* preimage, which is handed to every observer registered under
\* SettledInvoice, in order; the in-flight map is not touched and no lnd
\* lookup is made.
C17_InvoiceUpdateDelivered ==
  [][ lastOp'.op = "InvoiceRecv"
        => /\ Len(updateCalls') = Len(ObserverList(observers, SettledInvoice))
           /\ \A i \in 1 .. Len(updateCalls') :
                /\ updateCalls'[i].observer = ObserverList(observers, SettledInvoice)[i]
                /\ updateCalls'[i].event = updateCalls'[1].event
                /\ updateCalls'[i].event.Type = SettledInvoice
                /\ updateCalls'[i].event.IsSettled = lastOp'.inv.Settled
                /\ updateCalls'[i].event.SettleAmount_msat = lastOp'.inv.AmtPaidMsat
                /\ updateCalls'[i].event.Preimage = lastOp'.inv.RPreimage
           /\ forwardsInFlight' = forwardsInFlight
           /\ resolverCalls' = <<>> ]_vars

\* C17 witness: an invoice update was delivered to an observer while a
\* forward was in flight
C17_Witness ==
  /\ lastOp.op = "InvoiceRecv"
  /\ updateCalls # <<>>
  /\ forwardsInFlight # EmptyMap

\* the goroutines that are inside an operation on the registry
InRegistryOp == { g \in Goroutines : inProgress[g].op # "none" }

\* C18: operations on the registry exclude one another: at no time are two
\* goroutines inside Register, Deregister or the UpdateAll of a dispatch at
\* once.  (The in-flight map is used by the HTLC goroutine alone.)
C18_RegistryOpsExclusive == Cardinality(InRegistryOp) <= 1

\* the step just taken was an Update call of the HTLC loop's UpdateAll
HtlcUpdateStep == lastOp'.op = "Update" /\ inProgress'["htlc"] # inProgress["htlc"]

\* C19: the HTLC loop receives a record only when the processing of the one
\* before it, every Update call of its dispatch included, has finished; while
\* a dispatch is going on the stream's latest word is the SettleEvent being
\* dispatched; and the Update calls of a dispatch are made in the order of
\* the slice, each with the Forward event of that SettleEvent.
C19_HtlcEventsOneAtATime ==
  [][ /\ lastOp'.op = "HtlcRecv" => inProgress["htlc"] = NoCall
      /\ inProgress'["htlc"].op = "UpdateAll"
           => /\ \E k \in Keys : phase'[k] = "settled"
              /\ \A i \in 1 .. Len(inProgress'["htlc"].calls) :
                   inProgress'["htlc"].calls[i].event = inProgress'["htlc"].calls[1].event
      /\ HtlcUpdateStep
           => /\ updateCalls' = <<Head(inProgress["htlc"].calls)>>
              /\ updateCalls'[1].event.Type = Forward
              /\ inProgress'["htlc"].calls = Tail(inProgress["htlc"].calls) ]_vars

\* C19 witness: the HTLC loop is in the middle of a dispatch: one observer
\* has received the Forward event and another has yet to
C19_Witness ==
  /\ lastOp.op = "Update" /\ lastOp.t = Forward /\ ~lastOp.matched
  /\ inProgress["htlc"].op = "UpdateAll"
  /\ updateCalls # <<>>

\* C20: in every reachable state a key has an entry in the in-flight map
\* exactly when a ForwardEvent of the key was processed and no SettleEvent,
\* LinkFailEvent or ForwardFailEvent of the key was processed since, and the
\* entry is the latest such ForwardEvent.
C20_IndexInvariant ==
  /\ DOMAIN forwardsInFlight \subseteq Keys
  /\ \A k \in Keys :
       /\ (k \in DOMAIN forwardsInFlight) <=> (phase[k] \in {"started", "restarted", "interrupted"})
       /\ (k \in DOMAIN forwardsInFlight) => (forwardsInFlight[k] = pendingStart[k])

\* C20 witness: one key holds the later of two ForwardEvents while another
\* key has lost its entry to a SettleEvent or a fail event
C20_Witness ==
  /\ \E k \in Keys : phase[k] = "restarted" /\ k \in DOMAIN forwardsInFlight
  /\ \E k \in Keys : phase[k] \in {"settled", "failed"} /\ k \notin DOMAIN forwardsInFlight

\* the step just taken processed a SettleEvent, LinkFailEvent or
\* ForwardFailEvent of key k
TerminalStep(k) ==
  /\ lastOp'.op = "HtlcRecv"
  /\ lastOp'.ev.kind \in {"SettleEvent", "LinkFailEvent", "ForwardFailEvent"}
  /\ StepKey = k

\* C21: an entry of the in-flight map is removed only by a step that
\* processes a SettleEvent, LinkFailEvent or ForwardFailEvent of its key, and
\* it is changed only by a step that processes a further ForwardEvent of its
\* key, which replaces it; every other step (records of other keys or of
\* other kinds, the end of the stream) leaves it as it is.
C21_EntryRemovedOnlyByTerminal ==
  [][ \A k \in DOMAIN forwardsInFlight :
        /\ k \notin DOMAIN forwardsInFlight' => TerminalStep(k)
        /\ (k \in DOMAIN forwardsInFlight' /\ forwardsInFlight'[k] # forwardsInFlight[k])
             => (HtlcStep("ForwardEvent") /\ StepKey = k /\ forwardsInFlight'[k] = lastOp'.ev) ]_vars

\* C21 as stated: no step other than a terminal event of its key removes or
\* changes an entry of the in-flight map.
C21_NothingElseChangesEntry ==
  [][ \A k \in DOMAIN forwardsInFlight :
        ~TerminalStep(k)
          => (k \in DOMAIN forwardsInFlight' /\ forwardsInFlight'[k] = forwardsInFlight[k]) ]_vars

\* C21 witness: a terminal event of one key was processed and the entry of
\* another key is still in the map
C21_Witness ==
  /\ lastOp.op = "HtlcRecv"
  /\ lastOp.ev.kind \in {"SettleEvent", "LinkFailEvent", "ForwardFailEvent"}
  /\ lastOp.matched
  /\ \E k \in DOMAIN forwardsInFlight : k # inFlightKey(lastOp.ev)

\* C22: a matched SettleEvent removes the entry of its key before it makes a
\* lookup and before it calls an observer: once its lookups were made the
\* entry is gone, also when a lookup ended the process; no Update call is
\* made before the lookups; and at every Update call of the dispatch the map
\* holds no entry for the settled key.
C22_RemoveResolveDeliver ==
  [][ /\ MatchedSettle
           => /\ StepKey \notin DOMAIN forwardsInFlight'
              /\ resolverCalls' # <<>>
              /\ updateCalls' = <<>>
      /\ HtlcUpdateStep
           => /\ \E k \in Keys : phase[k] = "settled"
              /\ \A k \in Keys : phase[k] = "settled"
                   => (k \notin DOMAIN forwardsInFlight /\ k \notin DOMAIN forwardsInFlight') ]_vars

\* C22 witness: an observer has received the Forward event of a settled key,
\* after the lookups, and the map holds no entry for that key
C22_Witness ==
  /\ lastOp.op = "Update" /\ lastOp.t = Forward
  /\ Len(updateCalls) = 1 /\ updateCalls[1].event.Type = Forward
  /\ \E k \in Keys : phase[k] = "settled" /\ k \notin DOMAIN forwardsInFlight

\* C23: an HTLC record that is neither a ForwardEvent, a SettleEvent, a
\* LinkFailEvent nor a ForwardFailEvent changes neither the in-flight map nor
\* the registry, calls no observer, makes no lookup, and leaves the HTLC loop
\* listening for the next record.
C23_UnhandledKindNoOp ==
  [][ (/\ lastOp'.op = "HtlcRecv"
       /\ lastOp'.ev.kind \notin {"ForwardEvent", "SettleEvent", "LinkFailEvent", "ForwardFailEvent"})
        => /\ forwardsInFlight' = forwardsInFlight
           /\ observers' = observers
           /\ updateCalls' = <<>>
           /\ resolverCalls' = <<>>
           /\ ~crashed'
           /\ htlcLoop' = "listening" ]_vars

\* C23 witness: a record of an unhandled kind was processed whose key has an
\* entry in the map
C23_Witness ==
  /\ lastOp.op = "HtlcRecv" /\ lastOp.ev.kind = "FinalHtlcEvent"
  /\ inFlightKey(lastOp.ev) \in DOMAIN forwardsInFlight

\* the step just taken made the channel lookup of the given side and it succeeded
ChanLookupOk(side) ==
  \E i \in 1 .. Len(resolverCalls') : resolverCalls'[i] = Lookup("GetChanInfo", side, FALSE)

\* C24: in the Forward event delivered for a matched SettleEvent, for a side
\* whose channel lookup succeeded the pub key is the endpoint of that side's
\* channel that is not this node and the alias is the alias of that pub key;
\* the incoming channel gives FromPubKey and FromAlias, the outgoing channel
\* ToPubKey and ToAlias.
C24_CounterpartySelection ==
  [][ MatchedSettle
        => \A i \in 1 .. Len(updateCalls') :
             /\ ChanLookupOk("incoming")
                  => /\ updateCalls'[i].event.FromPubKey = ChanPeer(forwardsInFlight[StepKey].IncomingChannelId)
                     /\ updateCalls'[i].event.FromPubKey # thisNodesPubKey
                     /\ updateCalls'[i].event.FromAlias = NodeAlias(updateCalls'[i].event.FromPubKey)
             /\ ChanLookupOk("outgoing")
                  => /\ updateCalls'[i].event.ToPubKey = ChanPeer(forwardsInFlight[StepKey].OutgoingChannelId)
                     /\ updateCalls'[i].event.ToPubKey # thisNodesPubKey
                     /\ updateCalls'[i].event.ToAlias = NodeAlias(updateCalls'[i].event.ToPubKey) ]_vars

\* C24 witness: a Forward event was delivered for a forward that came in from
\* one peer and went out to another, both channel lookups having succeeded
C24_Witness ==
  /\ lastOp.op = "HtlcRecv" /\ lastOp.ev.kind = "SettleEvent" /\ lastOp.matched
  /\ updateCalls # <<>>
  /\ updateCalls[1].event.FromPubKey = "peerA"
  /\ updateCalls[1].event.ToPubKey = "peerB"

\* the lookups of the step just taken that called the given RPC for the given side
LookupsOf(call, side) ==
  { i \in 1 .. Len(resolverCalls') :
      resolverCalls'[i].call = call /\ resolverCalls'[i].side = side }

\* C25: lnd lookups are made only by a step that processes a matched
\* SettleEvent; such a step makes at most four, at most one channel lookup and
\* one alias lookup per side, and the alias lookup of a side only after the
\* channel lookup of that side succeeded.
C25_ResolverCallsBounded ==
  [][ /\ resolverCalls' # <<>> => MatchedSettle
      /\ Len(resolverCalls') <= 4
      /\ \A side \in {"incoming", "outgoing"} :
           /\ Cardinality(LookupsOf("GetChanInfo", side)) <= 1
           /\ Cardinality(LookupsOf("GetNodeInfo", side)) <= 1
           /\ \A i \in LookupsOf("GetNodeInfo", side) :
                \E j \in 1 .. (i - 1) : resolverCalls'[j] = Lookup("GetChanInfo", side, FALSE) ]_vars

\* C25 witness: a matched SettleEvent made three lookups: the channel lookup
\* of one side failed, so no alias lookup was made for that side
C25_Witness ==
  /\ lastOp.op = "HtlcRecv" /\ lastOp.ev.kind = "SettleEvent" /\ lastOp.matched
  /\ Len(resolverCalls) = 3
  /\ ~crashed

\* C26: Start returns once its work is done: while it waits in wg.Wait(), as
\* soon as every loop it launched has exited the WaitGroup counter is zero,
\* which is what lets wg.Wait() return.
C26_StartReturnsWhenLoopsExit ==
  (/\ startState = "waiting"
   /\ ~crashed
   /\ htlcLoop \in {"none", "exited"}
   /\ invoiceLoop \in {"none", "exited"})
    => wg = 0

\* C27: an Update call hands an event only to an observer registered under
\* the category of the event, and a Register or Deregister call of one
\* category leaves the observer list of every other category as it was.
C27_CategoryIsolation ==
  [][ /\ \A i \in 1 .. Len(updateCalls') :
           updateCalls'[i].observer \in RegisteredUnder(observers, updateCalls'[i].event.Type)
      /\ lastOp'.op \in {"Register", "Deregister"}
           => \A t \in EventTypes \ {lastOp'.t} :
                /\ ObserverList(observers', t) = ObserverList(observers, t)
                /\ (t \in DOMAIN observers') <=> (t \in DOMAIN observers) ]_vars

\* C27 witness: a Forward event was delivered while the observers registered
\* under SettledInvoice were others than those registered under Forward
C27_Witness ==
  /\ lastOp.op = "HtlcRecv" /\ updateCalls # <<>>
  /\ RegisteredUnder(observers, SettledInvoice) # {}
  /\ RegisteredUnder(observers, SettledInvoice) \cap RegisteredUnder(observers, Forward) = {}

====
